---- MODULE Spec2Model ----
(***************************************************************************)
(* Model of tinycbg: the 16x16 CyberGrindPattern of Tiles (tile.rs,        *)
(* lib.rs), the Line selection over it (indexing.rs) and the text codec    *)
(* write / parse (normal_fmt.rs).                                          *)
(*                                                                         *)
(* A panic (a failed assert!, an out-of-bounds index, a division by zero,  *)
(* an arithmetic overflow under overflow checks) is modelled as the        *)
(* operation ending with panic = TRUE and leaving the caller's state as it *)
(* was, as std::panic::catch_unwind / #[should_panic] observe it.          *)
(***************************************************************************)
EXTENDS Integers, Sequences, FiniteSets, TLC

VARIABLES
    tiles,            \* CyberGrindPattern.tiles : [Tile; 256]
    line,             \* the live Line (buf, len, idx), or NoLine
    bytes,            \* the bytes of a pattern file
    result,           \* what parse returned for bytes
    last,             \* the latest operation and how it ended
    nops,             \* operations performed so far (bounds the runs)
    overflow_checks   \* build profile: TRUE = debug (overflow panics), FALSE = release (wraps)

vars == <<tiles, line, bytes, result, last, nops, overflow_checks>>

----------------------------------------------------------------------------
(* Bounds of the model *)

\* operations on the pattern per run of SpecGrid
MaxGridOps == 2
\* operations on one Line per run of SpecLine
MaxLineOps == 2
\* tile edits before a write in SpecCodec
MaxEdits == 1

----------------------------------------------------------------------------
(* Machine integers *)

\* two's-complement wrap of n to i8
WrapI8(n) == ((n + 128) % 256) - 128

\* an i8 arithmetic result: panics under overflow checks, wraps otherwise
I8(n, oc) ==
    IF n >= -128 /\ n <= 127 THEN [panic |-> FALSE, v |-> n]
    ELSE IF oc THEN [panic |-> TRUE, v |-> 0]
    ELSE [panic |-> FALSE, v |-> WrapI8(n)]

----------------------------------------------------------------------------
(* tile.rs *)

Prefabs == {"None", "Melee", "Projectile", "HideousMass", "JumpPad", "Stairs"}

\* #[derive(Default)] for Tile: height 0, prefab Prefab::None
Tile_default == [height |-> 0, prefab |-> "None"]

Ok(t) == [panic |-> FALSE, tile |-> t]
Panic == [panic |-> TRUE, tile |-> Tile_default]

check_height_off_by_one(height) == height <= 51 /\ height >= -51

\* TRUE when both assert!s pass
check_height(height) == height <= 50 /\ height >= -50

Tile_new(height, prefab) ==
    IF check_height(height) THEN Ok([height |-> height, prefab |-> prefab]) ELSE Panic

with_height(height) ==
    IF check_height(height) THEN Ok([height |-> height, prefab |-> "None"]) ELSE Panic

with_prefab(prefab) == Ok([height |-> 0, prefab |-> prefab])

set_height(t, new_height) ==
    IF check_height(new_height) THEN Ok([t EXCEPT !.height = new_height]) ELSE Panic

set_prefab(t, new_prefab) == Ok([t EXCEPT !.prefab = new_prefab])

Tile_from_i8(height) ==
    IF check_height(height) THEN Ok([height |-> height, prefab |-> "None"]) ELSE Panic

Tile_from_prefab(prefab) == Ok([height |-> 0, prefab |-> prefab])

Tile_add(t, rhs, oc) ==
    LET new_height == I8(t.height + rhs, oc)
    IN  IF new_height.panic \/ ~check_height(new_height.v) THEN Panic
        ELSE Ok([height |-> new_height.v, prefab |-> t.prefab])

Tile_sub_as_add(t, rhs, oc) ==
    LET new_height == I8(t.height + rhs, oc)
    IN  IF new_height.panic \/ ~check_height(new_height.v) THEN Panic
        ELSE Ok([height |-> new_height.v, prefab |-> t.prefab])

Tile_sub(t, rhs, oc) ==
    LET new_height == I8(t.height - rhs, oc)
    IN  IF new_height.panic \/ ~check_height(new_height.v) THEN Panic
        ELSE Ok([height |-> new_height.v, prefab |-> t.prefab])

----------------------------------------------------------------------------
(* lib.rs *)

\* CyberGrindPattern::new / default: 256 default tiles
CyberGrindPattern_new == [i \in 0..255 |-> Tile_default]

CyberGrindPattern_from_vec_break_at_255(values) ==
    LET copied == {i \in 0..(Len(values) - 1) : ~(i >= 255)}
    IN  [i \in 0..255 |-> IF i \in copied THEN values[i + 1] ELSE CyberGrindPattern_new[i]]

\* impl From<Vec<Tile>>: the loop copies values[i] to new[i] until i > 255 breaks it
\* (values is 1-based here, so the source's values[i] is values[i + 1])
CyberGrindPattern_from_vec(values) ==
    LET copied == {i \in 0..(Len(values) - 1) : ~(i > 255)}
    IN  [i \in 0..255 |-> IF i \in copied THEN values[i + 1] ELSE CyberGrindPattern_new[i]]

GridOk(g) == [panic |-> FALSE, tiles |-> g]
GridPanic(g) == [panic |-> TRUE, tiles |-> g]

\* self[index] = t : an out-of-bounds index panics
index_assign(g, index, t) ==
    IF index >= 0 /\ index <= 255 THEN GridOk([g EXCEPT ![index] = t]) ELSE GridPanic(g)

\* Index / IndexMut<(usize, usize)>: the offset self[coordinate] refers to; an
\* offset outside the 256 tiles panics
index_point(coordinate) ==
    LET index == coordinate[2] * 16 + coordinate[1]
    IN  IF index < 256 THEN [panic |-> FALSE, off |-> index] ELSE [panic |-> TRUE, off |-> 0]

\* the loop `for i in 0..16 { self[f(i)] = tile }`, from iteration i on
RECURSIVE copy_loop(_, _, _, _, _)
copy_loop(g, t, base, stride, i) ==
    IF i >= 16 THEN GridOk(g)
    ELSE LET r == index_assign(g, base + i * stride, t)
         IN  IF r.panic THEN r ELSE copy_loop(r.tiles, t, base, stride, i + 1)

copy_tile_to_row(g, t, row) == copy_loop(g, t, row * 16, 1, 0)

copy_tile_to_column_along_row(g, t, column) == copy_loop(g, t, column, 1, 0)

copy_tile_to_column(g, t, column) == copy_loop(g, t, column, 16, 0)

----------------------------------------------------------------------------
(* indexing.rs *)

RECURSIVE greatest_common_divisor(_, _)
greatest_common_divisor(a, b) ==
    IF b # 0 THEN greatest_common_divisor(b, a % b) ELSE a

\* draw_line for point_b >= point_a componentwise (usize deltas do not underflow)
draw_line_step_twice(point_a, point_b) ==
    LET dx == point_b[1] - point_a[1]
        dy == point_b[2] - point_a[2]
        gcd == greatest_common_divisor(dx, dy)
    IN  IF gcd = 0 THEN [panic |-> TRUE, buf |-> [i \in 0..15 |-> 0], len |-> 0]
        ELSE LET step_x == dx \div gcd
                 step_y == dy \div gcd
             IN  [panic |-> FALSE,
                  buf |-> [i \in 0..15 |->
                             IF i < gcd + 1
                             THEN ((point_a[1] + i * step_x)
                                   + (point_a[2] + i * step_x) * 16) % 256
                             ELSE 0],
                  len |-> gcd + 1]

draw_line(point_a, point_b) ==
    LET dx == point_b[1] - point_a[1]
        dy == point_b[2] - point_a[2]
        gcd == greatest_common_divisor(dx, dy)
    IN  IF gcd = 0 THEN [panic |-> TRUE, buf |-> [i \in 0..15 |-> 0], len |-> 0]
        ELSE LET step_x == dx \div gcd
                 step_y == dy \div gcd
             IN  [panic |-> FALSE,
                  buf |-> [i \in 0..15 |->
                             IF i < gcd + 1
                             THEN ((point_a[1] + i * step_x)
                                   + (point_a[2] + i * step_y) * 16) % 256
                             ELSE 0],
                  len |-> gcd + 1]

NoLine == [live |-> FALSE, buf |-> [i \in 0..15 |-> 0], len |-> 0, idx |-> 0]

\* CyberGrindPattern::line(point_a..point_b)
CyberGrindPattern_line(point_a, point_b) ==
    IF ~(point_a[1] < 16 /\ point_a[2] < 16 /\ point_b[1] < 16 /\ point_b[2] < 16)
    THEN [panic |-> TRUE, line |-> NoLine]
    ELSE LET d == draw_line(point_a, point_b)
         IN  IF d.panic THEN [panic |-> TRUE, line |-> NoLine]
             ELSE [panic |-> FALSE,
                   line |-> [live |-> TRUE, buf |-> d.buf, len |-> d.len % 256, idx |-> 0]]

Line_len(l) == l.len

Line_next_skips_first(l) ==
    IF l.idx + 1 >= l.len THEN [some |-> FALSE, panic |-> FALSE, off |-> 0, line |-> l]
    ELSE [some |-> TRUE, panic |-> FALSE, off |-> l.buf[l.idx + 1],
          line |-> [l EXCEPT !.idx = l.idx + 2]]

\* Iterator::next for Line: the offset of the tile handed out, and the advanced cursor
Line_next(l) ==
    IF l.idx >= l.len THEN [some |-> FALSE, panic |-> FALSE, off |-> 0, line |-> l]
    ELSE IF l.idx > 15 THEN [some |-> FALSE, panic |-> TRUE, off |-> 0, line |-> l]
    ELSE [some |-> TRUE, panic |-> FALSE, off |-> l.buf[l.idx],
          line |-> [l EXCEPT !.idx = (l.idx + 1) % 256]]

\* Line::set: `for item in self { *item = tile }`
RECURSIVE Line_set(_, _, _)
Line_set(l, g, t) ==
    LET n == Line_next(l)
    IN  IF n.panic THEN [panic |-> TRUE, line |-> l, tiles |-> g]
        ELSE IF ~n.some THEN [panic |-> FALSE, line |-> l, tiles |-> g]
        ELSE Line_set(n.line, [g EXCEPT ![n.off] = t], t)

\* Index<usize> / IndexMut<usize> for Line: the grid offset line[index] refers to
Line_index(l, index) ==
    IF ~(index < 256) THEN [panic |-> TRUE, off |-> 0]
    ELSE IF l.idx > 15 THEN [panic |-> TRUE, off |-> 0]
    ELSE [panic |-> FALSE, off |-> l.buf[l.idx]]

----------------------------------------------------------------------------
(* normal_fmt.rs *)

MAX_FILE_SIZE == 1569

NEWLINE == 10
LPAREN == 40
RPAREN == 41
MINUS == 45
ZERO == 48
NINE == 57

\* the decimal digits of n >= 0, most significant first, as ASCII bytes
RECURSIVE Digits(_)
Digits(n) == IF n < 10 THEN <<ZERO + n>> ELSE Digits(n \div 10) \o <<ZERO + (n % 10)>>

\* format!("({height})")
format_height(height) ==
    <<LPAREN>> \o (IF height < 0 THEN <<MINUS>> \o Digits(-height) ELSE Digits(height))
               \o <<RPAREN>>

\* the bytes write emits for one elevation
write_height(height) ==
    IF height >= 0 /\ height < 9 THEN <<height + ZERO>> ELSE format_height(height)

\* the match of write on the prefab: 0 n p H s J
prefab_to_byte(prefab) ==
    CASE prefab = "None" -> 48
      [] prefab = "Melee" -> 110
      [] prefab = "Projectile" -> 112
      [] prefab = "HideousMass" -> 72
      [] prefab = "Stairs" -> 115
      [] prefab = "JumpPad" -> 74

RECURSIVE write_height_row(_, _, _)
write_height_row(g, tile_idx, column) ==
    IF column = 16 THEN <<NEWLINE>>
    ELSE write_height(g[tile_idx].height) \o write_height_row(g, tile_idx + 1, column + 1)

RECURSIVE write_prefab_row(_, _, _)
write_prefab_row(g, tile_idx, column) ==
    IF column = 16 THEN <<NEWLINE>>
    ELSE <<prefab_to_byte(g[tile_idx].prefab)>> \o write_prefab_row(g, tile_idx + 1, column + 1)

RECURSIVE write_height_rows(_, _)
write_height_rows(g, row) ==
    IF row = 16 THEN <<>> ELSE write_height_row(g, row * 16, 0) \o write_height_rows(g, row + 1)

RECURSIVE write_prefab_rows(_, _)
write_prefab_rows(g, row) ==
    IF row = 16 THEN <<>> ELSE write_prefab_row(g, row * 16, 0) \o write_prefab_rows(g, row + 1)

write_two_blank_lines(g) ==
    LET buf == write_height_rows(g, 0) \o <<NEWLINE, NEWLINE>> \o write_prefab_rows(g, 0)
    IN  IF Len(buf) > MAX_FILE_SIZE THEN [panic |-> TRUE, bytes |-> <<>>]
        ELSE [panic |-> FALSE, bytes |-> buf]

\* CyberGrindPattern::write: the bytes handed to the file; a write past the end of
\* the MAX_FILE_SIZE buffer panics
write(g) ==
    LET buf == write_height_rows(g, 0) \o <<NEWLINE>> \o write_prefab_rows(g, 0)
    IN  IF Len(buf) > MAX_FILE_SIZE THEN [panic |-> TRUE, bytes |-> <<>>]
        ELSE [panic |-> FALSE, bytes |-> buf]

\* TryFrom<u8> for Prefab (tile.rs)
prefab_try_from_swapped(byte) ==
    CASE byte = 48 -> [ok |-> TRUE, prefab |-> "None"]
      [] byte = 110 -> [ok |-> TRUE, prefab |-> "Melee"]
      [] byte = 112 -> [ok |-> TRUE, prefab |-> "Projectile"]
      [] byte = 72 -> [ok |-> TRUE, prefab |-> "HideousMass"]
      [] byte = 74 -> [ok |-> TRUE, prefab |-> "Stairs"]
      [] byte = 115 -> [ok |-> TRUE, prefab |-> "JumpPad"]
      [] OTHER -> [ok |-> FALSE, prefab |-> "None"]

prefab_try_from(byte) ==
    CASE byte = 48 -> [ok |-> TRUE, prefab |-> "None"]
      [] byte = 110 -> [ok |-> TRUE, prefab |-> "Melee"]
      [] byte = 112 -> [ok |-> TRUE, prefab |-> "Projectile"]
      [] byte = 72 -> [ok |-> TRUE, prefab |-> "HideousMass"]
      [] byte = 74 -> [ok |-> TRUE, prefab |-> "JumpPad"]
      [] byte = 115 -> [ok |-> TRUE, prefab |-> "Stairs"]
      [] OTHER -> [ok |-> FALSE, prefab |-> "None"]

\* bytes[buf_idx] for the 0-based buf_idx of the source; InBuf is its bounds check
InBuf(bs, buf_idx) == buf_idx < Len(bs)
At(bs, buf_idx) == bs[buf_idx + 1]

\* The parser's progress: kind "Ok" while it runs; "Err" with the ParseError's
\* line, column, char and err (its kind); "Panic" when it panicked.
PState(buf_idx, ln, column, heights, prefabs) ==
    [kind |-> "Ok", buf_idx |-> buf_idx, line |-> ln, column |-> column, char |-> 0,
     err |-> "", height |-> 0, heights |-> heights, prefabs |-> prefabs]

ParseError(ln, column, char, err) ==
    [kind |-> "Err", buf_idx |-> 0, line |-> ln, column |-> column, char |-> char,
     err |-> err, height |-> 0, heights |-> <<>>, prefabs |-> <<>>]

ParsePanic ==
    [kind |-> "Panic", buf_idx |-> 0, line |-> 0, column |-> 0, char |-> 0,
     err |-> "", height |-> 0, heights |-> <<>>, prefabs |-> <<>>]

check_for_newline(ln, column, byte) == byte = NEWLINE

\* the while loop of parse_parentheses, entered with char = bytes[buf_idx]
RECURSIVE parse_parentheses_loop(_, _, _, _, _, _, _)
parse_parentheses_loop(bs, buf_idx, ln, column, is_negative, height, oc) ==
    IF ~InBuf(bs, buf_idx) THEN ParsePanic
    ELSE LET char == At(bs, buf_idx)
         IN  IF char = RPAREN
             THEN LET h == IF is_negative THEN I8(height * (-1), oc)
                           ELSE [panic |-> FALSE, v |-> height]
                  IN  IF h.panic THEN ParsePanic
                      ELSE IF ~(h.v >= -50 /\ h.v <= 50)
                      THEN ParseError(ln, column, char, "InvalidHeightValue")
                      ELSE [PState(buf_idx, ln, column, <<>>, <<>>) EXCEPT !.height = h.v]
             ELSE IF char = MINUS
             THEN IF is_negative THEN ParseError(ln, column, char, "DuplicateNegative")
                  ELSE parse_parentheses_loop(bs, buf_idx + 1, ln, column + 1, TRUE,
                                              height, oc)
             ELSE IF ~(char >= ZERO /\ char <= NINE)
             THEN ParseError(ln, column, char, "InvalidHeightChar")
             ELSE IF char = ZERO /\ height = 0
             THEN ParseError(ln, column, char, "LeadingZero")
             ELSE LET m == I8(height * 10, oc)
                      a == I8(m.v + (char - ZERO), oc)
                  IN  IF m.panic \/ a.panic THEN ParsePanic
                      ELSE parse_parentheses_loop(bs, buf_idx + 1, ln, column + 1,
                                                  is_negative, a.v, oc)

parse_parentheses_column_lag(bs, buf_idx, ln, column, oc) ==
    parse_parentheses_loop(bs, buf_idx + 1, ln, column, FALSE, 0, oc)

\* parse_parentheses: the height, and the column and buf_idx of the closing ')'
parse_parentheses(bs, buf_idx, ln, column, oc) ==
    parse_parentheses_loop(bs, buf_idx + 1, ln, column + 1, FALSE, 0, oc)

\* one iteration of the inner loop of the elevation section of parse
parse_height_cell(bs, st, oc) ==
    IF ~InBuf(bs, st.buf_idx) THEN ParsePanic
    ELSE LET char == At(bs, st.buf_idx)
         IN  IF char = LPAREN
             THEN LET r == parse_parentheses(bs, st.buf_idx, st.line, st.column, oc)
                  IN  IF r.kind # "Ok" THEN r
                      ELSE IF set_height(Tile_default, r.height).panic THEN ParsePanic
                      ELSE PState(r.buf_idx + 1, st.line, r.column + 1,
                                  Append(st.heights, r.height), st.prefabs)
             ELSE IF ~(char >= ZERO /\ char <= NINE)
             THEN ParseError(st.line, st.column, char, "InvalidHeightChar")
             ELSE IF set_height(Tile_default, char - ZERO).panic THEN ParsePanic
             ELSE PState(st.buf_idx + 1, st.line, st.column + 1,
                         Append(st.heights, char - ZERO), st.prefabs)

\* the 16 cells of an elevation line, then its newline
RECURSIVE parse_height_row(_, _, _, _)
parse_height_row(bs, st, n, oc) ==
    IF st.kind # "Ok" THEN st
    ELSE IF n < 16 THEN parse_height_row(bs, parse_height_cell(bs, st, oc), n + 1, oc)
    ELSE IF ~InBuf(bs, st.buf_idx) THEN ParsePanic
    ELSE IF ~check_for_newline(st.line, st.column, At(bs, st.buf_idx))
    THEN ParseError(st.line, st.column, At(bs, st.buf_idx), "ExpectedNewline")
    ELSE PState(st.buf_idx + 1, st.line + 1, 1, st.heights, st.prefabs)

RECURSIVE parse_height_rows(_, _, _, _)
parse_height_rows(bs, st, row, oc) ==
    IF st.kind # "Ok" \/ row = 16 THEN st
    ELSE parse_height_rows(bs, parse_height_row(bs, st, 0, oc), row + 1, oc)

parse_blank_line_same_line(bs, st) ==
    IF st.kind # "Ok" THEN st
    ELSE IF ~InBuf(bs, st.buf_idx) THEN ParsePanic
    ELSE IF ~check_for_newline(st.line, 1, At(bs, st.buf_idx))
    THEN ParseError(st.line, 1, At(bs, st.buf_idx), "ExpectedNewline")
    ELSE PState(st.buf_idx + 1, st.line, 1, st.heights, st.prefabs)

\* the blank line between the sections
parse_blank_line(bs, st) ==
    IF st.kind # "Ok" THEN st
    ELSE IF ~InBuf(bs, st.buf_idx) THEN ParsePanic
    ELSE IF ~check_for_newline(st.line, 1, At(bs, st.buf_idx))
    THEN ParseError(st.line, 1, At(bs, st.buf_idx), "ExpectedNewline")
    ELSE PState(st.buf_idx + 1, st.line + 1, 1, st.heights, st.prefabs)

\* the 16 cells of a prefab line (column in 1..17), then its newline
RECURSIVE parse_prefab_row(_, _, _)
parse_prefab_row(bs, st, column) ==
    IF st.kind # "Ok" THEN st
    ELSE IF ~InBuf(bs, st.buf_idx) THEN ParsePanic
    ELSE LET char == At(bs, st.buf_idx)
         IN  IF column < 17
             THEN LET prefab == prefab_try_from(char)
                  IN  IF ~prefab.ok
                      THEN ParseError(st.line, column, char, "InvalidPrefab")
                      ELSE parse_prefab_row(bs,
                               PState(st.buf_idx + 1, st.line, column, st.heights,
                                      Append(st.prefabs, prefab.prefab)),
                               column + 1)
             ELSE IF ~check_for_newline(st.line, 17, char)
             THEN ParseError(st.line, 17, char, "ExpectedNewline")
             ELSE PState(st.buf_idx + 1, st.line + 1, 1, st.heights, st.prefabs)

RECURSIVE parse_prefab_rows(_, _, _)
parse_prefab_rows(bs, st, row) ==
    IF st.kind # "Ok" \/ row = 16 THEN st
    ELSE parse_prefab_rows(bs, parse_prefab_row(bs, st, 1), row + 1)

\* what parse returns: Ok(grid), Err(ParseError) or a panic
Parsed(kind, grid, ln, column, char, err) ==
    [kind |-> kind, grid |-> grid, line |-> ln, column |-> column, char |-> char,
     err |-> err]

NoResult == Parsed("None", <<>>, 0, 0, 0, "")

\* CyberGrindPattern::parse
parse(bs, oc) ==
    LET heights == parse_height_rows(bs, PState(0, 1, 1, <<>>, <<>>), 0, oc)
        st == parse_prefab_rows(bs, parse_blank_line(bs, heights), 0)
    IN  IF st.kind = "Ok"
        THEN Parsed("Ok",
                    [i \in 0..255 |->
                        [height |-> st.heights[i + 1], prefab |-> st.prefabs[i + 1]]],
                    0, 0, 0, "")
        ELSE Parsed(st.kind, <<>>, st.line, st.column, st.char, st.err)

----------------------------------------------------------------------------
(* Outcome of the latest operation.  a, b: the points of the latest line   *)
(* call; arg: the operation's integer input; off: the grid offset it       *)
(* touched; t: the Tile it was given.                                      *)

NoPoint == <<0, 0>>

Last(op, ok, arg, off, t) ==
    [op |-> op, ok |-> ok, a |-> NoPoint, b |-> NoPoint, arg |-> arg, off |-> off, t |-> t]

LineLast(op, ok, arg, off, t) ==
    [op |-> op, ok |-> ok, a |-> last.a, b |-> last.b, arg |-> arg, off |-> off, t |-> t]

InitCommon ==
    /\ line = NoLine
    /\ bytes = <<>>
    /\ last = Last("init", TRUE, 0, 0, Tile_default)
    /\ nops = 0
    /\ overflow_checks \in BOOLEAN

----------------------------------------------------------------------------
(* SpecLine: one Line borrowed from a new pattern, then iterated, set and  *)
(* indexed (tests/line.rs).                                                *)

\* start points tried, and for each the end points at or beyond it
LineStarts == {<<0, 0>>, <<3, 5>>}
LineEnds(a) ==
    IF a = <<0, 0>> THEN (0..16) \X (0..16)
    ELSE {a, <<15, 15>>, <<3, 15>>, <<15, 5>>, <<7, 9>>, <<9, 8>>, <<11, 9>>}

\* tiles written through a Line
LineTiles == {[height |-> 10, prefab |-> "None"], [height |-> -50, prefab |-> "Stairs"]}

\* positions tried for line[index]
IndexInputs(l) == {0, 1, l.len - 1, 256}

InitLine == InitCommon /\ tiles = CyberGrindPattern_new /\ result = NoResult

\* let mut line = pat.line(a..b);
MakeLine(a, b) ==
    /\ ~line.live
    /\ last.op = "init"
    /\ LET r == CyberGrindPattern_line(a, b)
       IN  /\ line' = r.line
           /\ last' = [Last("line", ~r.panic, 0, 0, Tile_default) EXCEPT !.a = a, !.b = b]
    /\ UNCHANGED <<tiles, bytes, result, nops, overflow_checks>>

\* line.next()
LineNext ==
    /\ line.live /\ nops < MaxLineOps
    /\ LET n == Line_next(line)
       IN  /\ line' = n.line
           /\ last' = LineLast("next", n.some, line.idx, n.off, Tile_default)
    /\ nops' = nops + 1
    /\ UNCHANGED <<tiles, bytes, result, overflow_checks>>

\* line.set(t)
LineSet(t) ==
    /\ line.live /\ nops < MaxLineOps
    /\ LET r == Line_set(line, tiles, t)
       IN  /\ line' = r.line
           /\ tiles' = r.tiles
           /\ last' = LineLast("set", ~r.panic, line.idx, 0, t)
    /\ nops' = nops + 1
    /\ UNCHANGED <<bytes, result, overflow_checks>>

\* let x = line[index];
LineIndexRead(index) ==
    /\ line.live /\ nops < MaxLineOps
    /\ LET r == Line_index(line, index)
       IN  last' = LineLast("index", ~r.panic, index, r.off,
                            IF r.panic THEN Tile_default ELSE tiles[r.off])
    /\ nops' = nops + 1
    /\ UNCHANGED <<tiles, line, bytes, result, overflow_checks>>

\* line[index] = t;
LineIndexWrite(index, t) ==
    /\ line.live /\ nops < MaxLineOps
    /\ LET r == Line_index(line, index)
       IN  /\ tiles' = IF r.panic THEN tiles ELSE [tiles EXCEPT ![r.off] = t]
           /\ last' = LineLast("index_mut", ~r.panic, index, r.off, t)
    /\ nops' = nops + 1
    /\ UNCHANGED <<line, bytes, result, overflow_checks>>

NextLine ==
    \/ \E a \in LineStarts : \E b \in LineEnds(a) : MakeLine(a, b)
    \/ LineNext
    \/ \E t \in LineTiles : LineSet(t)
    \/ \E i \in IndexInputs(line) : LineIndexRead(i)
    \/ \E i \in IndexInputs(line), t \in LineTiles : LineIndexWrite(i, t)

SpecLine == InitLine /\ [][NextLine]_vars

----------------------------------------------------------------------------
(* SpecCodec: a pattern is built, written, the file is possibly edited or   *)
(* cut short by hand, and parsed (tests/cbg.rs).                           *)

\* tests/cbg.rs create_test_patterns: range.cgp and max_len.cgp
RangePattern ==
    [i \in 0..255 |->
        [height |-> IF i <= 100 THEN i - 50 ELSE 0,
         prefab |-> CASE i = 251 -> "Melee"
                      [] i = 252 -> "Projectile"
                      [] i = 253 -> "HideousMass"
                      [] i = 254 -> "JumpPad"
                      [] i = 255 -> "Stairs"
                      [] OTHER -> "None"]]

MaxLenPattern == [i \in 0..255 |-> [height |-> -50, prefab |-> "Melee"]]

CodecPatterns == {CyberGrindPattern_new, RangePattern, MaxLenPattern}

\* inputs of the edits made before the write
EditCells == {0, 255}
EditHeights == {-51, -50, 9}
EditPrefabs == {"Stairs"}

\* cells whose text is edited in the file, bytes put at a cell start, values
\* written as a parenthesized literal, lengths the file is cut to
TamperCells == {0, 15, 16, 36, 59, 255}
StartBytes == {122, 10, 41, 45, 32, 0, 255}
LiteralCells == {36}
LiteralValues ==
    {1, 9, 10, 49, 50, 51, 99, 100, 127, 128, 129, 255, 256, 300, 306, 999, 1000, 2560,
     -1, -10, -50, -51, -100, -128, -129, -256, -306, -999}
TruncateLens(bs) == {0, 3, 17, Len(bs) - 273, Len(bs) - 1}

\* bytes of the written cells first..last-1
RECURSIVE CellsWidth(_, _, _)
CellsWidth(g, first, end) ==
    IF first >= end THEN 0
    ELSE Len(write_height(g[first].height)) + CellsWidth(g, first + 1, end)

\* bytes of the written elevation lines 0..row-1, newlines included
RECURSIVE LinesWidth(_, _)
LinesWidth(g, row) ==
    IF row = 0 THEN 0
    ELSE LinesWidth(g, row - 1) + CellsWidth(g, (row - 1) * 16, row * 16) + 1

\* 0-based position in the written file of the first byte of elevation cell `cell`
CellStart(g, cell) ==
    LinesWidth(g, cell \div 16) + CellsWidth(g, (cell \div 16) * 16, cell)

InitCodec ==
    /\ InitCommon
    /\ result = NoResult
    /\ tiles \in CodecPatterns

EditPhase == last.op \in {"init", "edit"} /\ result.kind = "None"

\* pattern[i].set_height(h)
CodecSetHeight(i, h) ==
    /\ EditPhase /\ nops < MaxEdits
    /\ LET r == set_height(tiles[i], h)
       IN  /\ tiles' = IF r.panic THEN tiles ELSE [tiles EXCEPT ![i] = r.tile]
           /\ last' = Last("edit", ~r.panic, h, i, Tile_default)
    /\ nops' = nops + 1
    /\ UNCHANGED <<line, bytes, result, overflow_checks>>

\* pattern[i].set_prefab(p)
CodecSetPrefab(i, p) ==
    /\ EditPhase /\ nops < MaxEdits
    /\ LET r == set_prefab(tiles[i], p)
       IN  /\ tiles' = [tiles EXCEPT ![i] = r.tile]
           /\ last' = Last("edit", TRUE, 0, i, r.tile)
    /\ nops' = nops + 1
    /\ UNCHANGED <<line, bytes, result, overflow_checks>>

\* pattern.write(file)
CodecWrite ==
    /\ EditPhase
    /\ LET r == write(tiles)
       IN  /\ bytes' = r.bytes
           /\ last' = Last("write", ~r.panic, 0, 0, Tile_default)
    /\ UNCHANGED <<tiles, line, result, nops, overflow_checks>>

Written == last.op = "write" /\ last.ok /\ result.kind = "None"

\* the file is edited: byte b is put where elevation cell `cell` starts
ReplaceCellStart(cell, b) ==
    /\ Written
    /\ LET pos == CellStart(tiles, cell)
       IN  /\ bytes' = [bytes EXCEPT ![pos + 1] = b]
           /\ last' = Last("replace", TRUE, pos, b, Tile_default)
    /\ UNCHANGED <<tiles, line, result, nops, overflow_checks>>

\* the file is edited: the text of elevation cell `cell` becomes "(v)"
ReplaceCellText(cell, v) ==
    /\ Written
    /\ LET pos == CellStart(tiles, cell)
           width == Len(write_height(tiles[cell].height))
       IN  /\ bytes' = SubSeq(bytes, 1, pos) \o format_height(v)
                         \o SubSeq(bytes, pos + width + 1, Len(bytes))
           /\ last' = Last("literal", TRUE, cell, v, Tile_default)
    /\ UNCHANGED <<tiles, line, result, nops, overflow_checks>>

\* the file is cut to its first n bytes
Truncate(n) ==
    /\ Written
    /\ n >= 0 /\ n < Len(bytes)
    /\ bytes' = SubSeq(bytes, 1, n)
    /\ last' = Last("truncate", TRUE, n, 0, Tile_default)
    /\ UNCHANGED <<tiles, line, result, nops, overflow_checks>>

\* texts put in place of an elevation cell: (07) (0) (-0) (10) (-50) () (-) (5-)
\* (--5) (1-0) (+5) (5 )
CellTexts ==
    << <<LPAREN, ZERO, ZERO + 7, RPAREN>>,
       <<LPAREN, ZERO, RPAREN>>,
       <<LPAREN, MINUS, ZERO, RPAREN>>,
       <<LPAREN, ZERO + 1, ZERO, RPAREN>>,
       <<LPAREN, MINUS, ZERO + 5, ZERO, RPAREN>>,
       <<LPAREN, RPAREN>>,
       <<LPAREN, MINUS, RPAREN>>,
       <<LPAREN, ZERO + 5, MINUS, RPAREN>>,
       <<LPAREN, MINUS, MINUS, ZERO + 5, RPAREN>>,
       <<LPAREN, ZERO + 1, MINUS, ZERO, RPAREN>>,
       <<LPAREN, 43, ZERO + 5, RPAREN>>,
       <<LPAREN, ZERO + 5, 32, RPAREN>> >>

\* the file is edited: the text of elevation cell `cell` becomes CellTexts[k]
ReplaceCellRaw(cell, k) ==
    /\ Written
    /\ LET pos == CellStart(tiles, cell)
           width == Len(write_height(tiles[cell].height))
       IN  /\ bytes' = SubSeq(bytes, 1, pos) \o CellTexts[k]
                         \o SubSeq(bytes, pos + width + 1, Len(bytes))
           /\ last' = Last("text", TRUE, cell, k, Tile_default)
    /\ UNCHANGED <<tiles, line, result, nops, overflow_checks>>

\* marker cells (column, row), 1-based, whose byte is edited, and the bytes put there:
\* 0 n p H J s, and z ( 1 newline 255
PrefabCells == {<<1, 1>>, <<8, 5>>, <<16, 16>>}
PrefabBytes == {48, 110, 112, 72, 74, 115, 122, LPAREN, ZERO + 1, NEWLINE, 255}

\* 0-based position in the written file of the marker at column c of marker row r
PrefabStart(g, c, r) == LinesWidth(g, 16) + 1 + (r - 1) * 17 + (c - 1)

\* the file is edited: byte b is put at column c of marker row r
ReplacePrefabByte(c, r, b) ==
    /\ Written
    /\ LET pos == PrefabStart(tiles, c, r)
       IN  /\ bytes' = [bytes EXCEPT ![pos + 1] = b]
           /\ last' = [Last("prefab", TRUE, pos, b, Tile_default) EXCEPT !.a = <<c, r>>]
    /\ UNCHANGED <<tiles, line, result, nops, overflow_checks>>

\* CyberGrindPattern::parse(&bytes)
CodecParse ==
    /\ result.kind = "None"
    /\ result' = parse(bytes, overflow_checks)
    /\ UNCHANGED <<tiles, line, bytes, last, nops, overflow_checks>>

NextCodec ==
    \/ \E i \in EditCells, h \in EditHeights : CodecSetHeight(i, h)
    \/ \E i \in EditCells, p \in EditPrefabs : CodecSetPrefab(i, p)
    \/ CodecWrite
    \/ \E c \in TamperCells, b \in StartBytes : ReplaceCellStart(c, b)
    \/ \E c \in LiteralCells, v \in LiteralValues : ReplaceCellText(c, v)
    \/ \E n \in TruncateLens(bytes) : Truncate(n)
    \/ \E c \in LiteralCells, k \in 1..Len(CellTexts) : ReplaceCellRaw(c, k)
    \/ \E p \in PrefabCells, b \in PrefabBytes : ReplacePrefabByte(p[1], p[2], b)
    \/ CodecParse

SpecCodec == InitCodec /\ [][NextCodec]_vars

----------------------------------------------------------------------------
(* SpecGrid: a pattern, new or parsed from a file, is edited tile by tile,  *)
(* by row and column fills and through lines.                              *)

\* i8 inputs of the Tile constructors and setters, and of + and -
HeightInputs == {-128, -51, -50, 50, 51, 127}
DeltaInputs == {-128, -100, -1, 1, 100, 127}

\* the cell the Tile operations act on, pat[(7, 7)]
TileCells == {7 * 16 + 7}

\* tiles, rows, columns and segments of the fills
FillTiles == {[height |-> 20, prefab |-> "None"], [height |-> 0, prefab |-> "Melee"]}
FillIndexes == {0, 15, 16}
FillSegments == {<<(<<0, 0>>), (<<15, 15>>)>>, <<(<<7, 0>>), (<<7, 15>>)>>,
                 <<(<<2, 4>>), (<<11, 7>>)>>}

\* literals put at cell 36 of the parsed file
ParsedValues == {50, 51, -50, -51, 256, 306}

\* lengths of the Vec<Tile> a pattern is built from, and its i-th tile (0-based)
VecLens == {0, 1, 16, 255, 256, 257, 300}
VecTile(i) ==
    [height |-> (i % 101) - 50, prefab |-> IF i >= 255 THEN "Stairs" ELSE "Melee"]
Vec(n) == [k \in 1..n |-> VecTile(k - 1)]

\* coordinates (x, y) of the accesses pat[(x, y)], and the tile written there
PointInputs == {<<0, 0>>, <<7, 7>>, <<15, 15>>, <<16, 0>>, <<0, 16>>, <<16, 15>>, <<31, 14>>}
PointTiles == {[height |-> -7, prefab |-> "JumpPad"]}

InitGrid == InitCommon /\ tiles = CyberGrindPattern_new /\ result = NoResult

GridStep == nops < MaxGridOps /\ nops' = nops + 1

\* what an operation that yields a Tile (or panics) does to pattern[i]
PutTile(op, i, arg, r) ==
    /\ GridStep
    /\ tiles' = IF r.panic THEN tiles ELSE [tiles EXCEPT ![i] = r.tile]
    /\ last' = Last(op, ~r.panic, arg, i, r.tile)
    /\ UNCHANGED <<line, bytes, result, overflow_checks>>

\* what an operation on the whole pattern does
PutGrid(op, arg, t, r) ==
    /\ GridStep
    /\ tiles' = r.tiles
    /\ last' = Last(op, ~r.panic, arg, 0, t)
    /\ UNCHANGED <<line, bytes, result, overflow_checks>>

\* pat[i] = Tile::new(h, p);
GridNew(i, h, p) == PutTile("new", i, h, Tile_new(h, p))
\* pat[i] = Tile::with_height(h);
GridWithHeight(i, h) == PutTile("with_height", i, h, with_height(h))
\* pat[i] = Tile::with_prefab(p);
GridWithPrefab(i, p) == PutTile("with_prefab", i, 0, with_prefab(p))
\* pat[i] = Tile::from(h);
GridFromI8(i, h) == PutTile("from_i8", i, h, Tile_from_i8(h))
\* pat[i] = Tile::from(p);
GridFromPrefab(i, p) == PutTile("from_prefab", i, 0, Tile_from_prefab(p))
\* pat[i] = Tile::default();
GridDefault(i) == PutTile("default", i, 0, Ok(Tile_default))
\* pat[i].set_height(h);
GridSetHeight(i, h) == PutTile("set_height", i, h, set_height(tiles[i], h))
\* pat[i].set_prefab(p);
GridSetPrefab(i, p) == PutTile("set_prefab", i, 0, set_prefab(tiles[i], p))
\* pat[i] = pat[i] + d;
GridAdd(i, d) == PutTile("add", i, d, Tile_add(tiles[i], d, overflow_checks))
\* pat[i] = pat[i] - d;
GridSub(i, d) == PutTile("sub", i, d, Tile_sub(tiles[i], d, overflow_checks))

\* pat.copy_tile_to_row(t, row);
GridCopyRow(t, row) == PutGrid("copy_tile_to_row", row, t, copy_tile_to_row(tiles, t, row))
\* pat.copy_tile_to_column(t, column);
GridCopyColumn(t, column) ==
    PutGrid("copy_tile_to_column", column, t, copy_tile_to_column(tiles, t, column))

\* pat.line(a..b).set(t);
GridLineSet(a, b, t) ==
    LET l == CyberGrindPattern_line(a, b)
        r == Line_set(l.line, tiles, t)
    IN  PutGrid("line_set", 0, t,
                IF l.panic \/ r.panic THEN GridPanic(tiles) ELSE GridOk(r.tiles))

\* pat = CyberGrindPattern::parse(&file)?; the file is a written pattern with
\* "(v)" put at cell 36
GridParse(g, v) ==
    /\ nops = 0
    /\ LET w == write(g).bytes
           pos == CellStart(g, 36)
           width == Len(write_height(g[36].height))
           file == SubSeq(w, 1, pos) \o format_height(v) \o SubSeq(w, pos + width + 1, Len(w))
           r == parse(file, overflow_checks)
       IN  PutGrid("parse", v, Tile_default,
                   IF r.kind = "Ok" THEN GridOk(r.grid) ELSE GridPanic(tiles))

\* let x = pat[(x, y)];
GridPointRead(coordinate) ==
    /\ GridStep
    /\ LET r == index_point(coordinate)
       IN  last' = [Last("point", ~r.panic, 0, r.off,
                         IF r.panic THEN Tile_default ELSE tiles[r.off])
                    EXCEPT !.a = coordinate]
    /\ UNCHANGED <<tiles, line, bytes, result, overflow_checks>>

\* pat[(x, y)] = t;
GridPointWrite(coordinate, t) ==
    /\ GridStep
    /\ LET r == index_point(coordinate)
       IN  /\ tiles' = IF r.panic THEN tiles ELSE [tiles EXCEPT ![r.off] = t]
           /\ last' = [Last("point_mut", ~r.panic, 0, r.off, t) EXCEPT !.a = coordinate]
    /\ UNCHANGED <<line, bytes, result, overflow_checks>>

\* pat = CyberGrindPattern::from(values); for a Vec of n tiles
GridFromVec(n) ==
    /\ nops = 0
    /\ PutGrid("from_vec", n, Tile_default, GridOk(CyberGrindPattern_from_vec(Vec(n))))

NextGrid ==
    \/ \E i \in TileCells, h \in HeightInputs, p \in Prefabs : GridNew(i, h, p)
    \/ \E i \in TileCells, h \in HeightInputs : GridWithHeight(i, h)
    \/ \E i \in TileCells, p \in Prefabs : GridWithPrefab(i, p)
    \/ \E i \in TileCells, h \in HeightInputs : GridFromI8(i, h)
    \/ \E i \in TileCells, p \in Prefabs : GridFromPrefab(i, p)
    \/ \E i \in TileCells : GridDefault(i)
    \/ \E i \in TileCells, h \in HeightInputs : GridSetHeight(i, h)
    \/ \E i \in TileCells, p \in Prefabs : GridSetPrefab(i, p)
    \/ \E i \in TileCells, d \in DeltaInputs : GridAdd(i, d)
    \/ \E i \in TileCells, d \in DeltaInputs : GridSub(i, d)
    \/ \E t \in FillTiles, row \in FillIndexes : GridCopyRow(t, row)
    \/ \E t \in FillTiles, column \in FillIndexes : GridCopyColumn(t, column)
    \/ \E s \in FillSegments, t \in FillTiles : GridLineSet(s[1], s[2], t)
    \/ \E g \in CodecPatterns, v \in ParsedValues : GridParse(g, v)
    \/ \E n \in VecLens : GridFromVec(n)
    \/ \E c \in PointInputs : GridPointRead(c)
    \/ \E c \in PointInputs, t \in PointTiles : GridPointWrite(c, t)

SpecGrid == InitGrid /\ [][NextGrid]_vars

----------------------------------------------------------------------------
(* SpecArith: one Tile of any valid elevation, then one + or - with any i8. *)

\* the Tile is pat[(7, 7)]; its markers tried
ArithCell == index_point(<<7, 7>>).off
ArithPrefabs == {"None", "JumpPad"}

InitArith ==
    /\ InitCommon
    /\ result = NoResult
    /\ \E h \in -50..50, p \in ArithPrefabs :
          tiles = [CyberGrindPattern_new EXCEPT ![ArithCell] = Tile_new(h, p).tile]

\* what + or - does to pat[(7, 7)]
ArithPut(op, d, r) ==
    /\ last.op = "init"
    /\ tiles' = IF r.panic THEN tiles ELSE [tiles EXCEPT ![ArithCell] = r.tile]
    /\ last' = Last(op, ~r.panic, d, ArithCell, r.tile)
    /\ nops' = nops + 1
    /\ UNCHANGED <<line, bytes, result, overflow_checks>>

\* pat[(7, 7)] = pat[(7, 7)] + d;
TileAdd(d) == ArithPut("add", d, Tile_add(tiles[ArithCell], d, overflow_checks))
\* pat[(7, 7)] = pat[(7, 7)] - d;
TileSub(d) == ArithPut("sub", d, Tile_sub(tiles[ArithCell], d, overflow_checks))

NextArith ==
    \/ \E d \in -128..127 : TileAdd(d)
    \/ \E d \in -128..127 : TileSub(d)

SpecArith == InitArith /\ [][NextArith]_vars

----------------------------------------------------------------------------
(* Claims about Tile and the pattern (SpecGrid) *)

\* C3: every Tile reachable by constructions, mutations and grid writes has
\* its elevation in [-50,50]; new, with_height and set_height succeed for
\* exactly the elevations -50..=50.
C3_ElevationRange ==
    /\ \A i \in 0..255 : tiles[i].height >= -50 /\ tiles[i].height <= 50
    /\ last.ok => (last.t.height >= -50 /\ last.t.height <= 50)
    /\ last.op \in {"new", "with_height", "set_height", "from_i8"} =>
          (last.ok <=> (last.arg >= -50 /\ last.arg <= 50))
    /\ (last.op \in {"new", "with_height", "set_height", "from_i8"} /\ last.ok) =>
          tiles[last.off].height = last.arg

C3_Witness ==
    /\ nops = 2
    /\ last.op = "set_height" /\ ~last.ok /\ last.arg = 51
    /\ tiles[119] = [height |-> -50, prefab |-> "Stairs"]

----------------------------------------------------------------------------
(* Claims about Line (SpecLine) *)

InRange(p) == p[1] < 16 /\ p[2] < 16

Offset(p) == p[2] * 16 + p[1]

\* the greatest common divisor of m and n, not both 0, by its definition
Divides(d, m) == m % d = 0
MathGcd(m, n) ==
    CHOOSE d \in 1..16 :
        /\ Divides(d, m) /\ Divides(d, n)
        /\ \A e \in 1..16 : (Divides(e, m) /\ Divides(e, n)) => e <= d

\* the i-th lattice point of the segment a..b, as a grid offset
SegmentOffsetG(a, b, g, i) ==
    (a[1] + i * ((b[1] - a[1]) \div g)) + 16 * (a[2] + i * ((b[2] - a[2]) \div g))

SelectedOffsets(a, b) ==
    LET g == MathGcd(b[1] - a[1], b[2] - a[2])
    IN  {SegmentOffsetG(a, b, g, i) : i \in 0..g}

\* C4: for in-range A # B with Ax <= Bx and Ay <= By, line(A..B) has length
\* gcd(dx, dy) + 1 <= 16 and its i-th offset is the i-th lattice point of the
\* segment; the first offset is A's and the last is B's.
C4_LineSelection ==
    (last.op = "line" /\ InRange(last.a) /\ InRange(last.b) /\ last.a # last.b) =>
        LET g == MathGcd(last.b[1] - last.a[1], last.b[2] - last.a[2])
        IN  /\ last.ok /\ line.live
            /\ Line_len(line) = g + 1
            /\ Line_len(line) <= 16
            /\ \A i \in 0..g : line.buf[i] = SegmentOffsetG(last.a, last.b, g, i)
            /\ line.buf[0] = Offset(last.a)
            /\ line.buf[g] = Offset(last.b)

C4_Witness ==
    /\ last.op = "line" /\ last.a = <<3, 5>> /\ last.b = <<11, 9>>
    /\ line.live /\ line.len = 5 /\ line.buf[1] = 5 + 6 * 16

\* C5: line(A..A) succeeds with length 1 and A's offset as its only offset.
C5_DegenerateLine ==
    (last.op = "line" /\ InRange(last.a) /\ last.a = last.b) =>
        /\ last.ok /\ line.live
        /\ Line_len(line) = 1
        /\ line.buf[0] = Offset(last.a)

\* C6: set(tile) on a freshly created line(A..B) makes every selected cell
\* equal to tile and leaves every other cell as it was.
C6_BulkLineEdit ==
    [][(last.op = "line" /\ last.ok /\ last'.op = "set") =>
          /\ last'.ok
          /\ LET sel == SelectedOffsets(last.a, last.b)
             IN  \A o \in 0..255 :
                    tiles'[o] = IF o \in sel THEN last'.t ELSE tiles[o]]_vars

C6_Witness ==
    /\ last.op = "set" /\ last.ok /\ nops = 1
    /\ last.a = <<0, 0>> /\ last.b = <<15, 15>>
    /\ \A i \in 0..15 : tiles[i * 17] = last.t
    /\ tiles[1] = Tile_default

\* C7: line[i], for i below the length, refers to the tile at the i-th
\* selected offset whatever the cursor is.
C7_PositionIndexed ==
    (last.op \in {"index", "index_mut"} /\ last.arg < Line_len(line)) =>
        /\ last.ok
        /\ last.off = line.buf[last.arg]
        /\ last.op = "index_mut" => tiles[line.buf[last.arg]] = last.t

----------------------------------------------------------------------------
(* Claims about the codec (SpecCodec) *)

Parsed_ == result.kind # "None"

\* C1: parsing the bytes write produced for a grid succeeds and returns a grid
\* equal to it tile by tile.
C1_RoundTrip ==
    (Parsed_ /\ last.op = "write" /\ last.ok) =>
        /\ result.kind = "Ok"
        /\ \A i \in 0..255 : result.grid[i] = tiles[i]

C1_Witness ==
    /\ Parsed_ /\ last.op = "write" /\ result.kind = "Ok"
    /\ tiles[0].height = -50 /\ tiles[59].height = 9 /\ tiles[100].height = 50
    /\ result.grid[254].prefab = "JumpPad" /\ result.grid[255].prefab = "Stairs"

\* the rendering the format gives an elevation: a bare digit for 0..9, "(e)" otherwise
CanonicalCell(e) == IF e >= 0 /\ e <= 9 THEN <<ZERO + e>> ELSE format_height(e)

RECURSIVE CanonicalRow(_, _, _)
CanonicalRow(g, tile_idx, column) ==
    IF column = 16 THEN <<NEWLINE>>
    ELSE CanonicalCell(g[tile_idx].height) \o CanonicalRow(g, tile_idx + 1, column + 1)

RECURSIVE CanonicalRows(_, _)
CanonicalRows(g, row) ==
    IF row = 16 THEN <<>> ELSE CanonicalRow(g, row * 16, 0) \o CanonicalRows(g, row + 1)

\* C2: the elevation section write produces renders each elevation in 0..9 as
\* one digit and every other elevation as "(e)".
C2_BareDigitBoundary ==
    (last.op = "write" /\ last.ok) =>
        LET want == CanonicalRows(tiles, 0)
        IN  /\ Len(bytes) >= Len(want)
            /\ SubSeq(bytes, 1, Len(want)) = want

\* C8: parse returns a grid or a ParseError for every byte sequence.
C8_ParseTotal == result.kind \in {"None", "Ok", "Err"}

\* 1-based line and column of the byte at 0-based position pos of bs
LineOf(bs, pos) == 1 + Cardinality({k \in 1..pos : bs[k] = NEWLINE})
ColumnOf(bs, pos) ==
    LET nls == {k \in 1..pos : bs[k] = NEWLINE}
        line_start == IF nls = {} THEN 0 ELSE CHOOSE k \in nls : \A j \in nls : j <= k
    IN  pos + 1 - line_start

\* C9: a byte that is neither '(' nor a digit at the start of a cell of
\* elevation line r, after valid bytes only, makes parse fail with
\* InvalidHeightChar, line r, the byte's 1-based position in its line, and the byte.
C9_ErrorPosition ==
    (Parsed_ /\ last.op = "replace" /\ ~(last.off >= ZERO /\ last.off <= NINE)
        /\ last.off # LPAREN) =>
        /\ result.kind = "Err"
        /\ result.grid = <<>>
        /\ result.err = "InvalidHeightChar"
        /\ result.line = LineOf(bytes, last.arg)
        /\ result.line \in 1..16
        /\ result.column = ColumnOf(bytes, last.arg)
        /\ result.char = last.off

C9_Witness ==
    /\ Parsed_ /\ last.op = "replace" /\ last.off = 122
    /\ tiles[32].height = -18
    /\ result.kind = "Err" /\ result.err = "InvalidHeightChar"
    /\ result.line = 3 /\ result.column = 21 /\ result.char = 122

\* C10: a parenthesized literal "(v)" is accepted with exactly the value v
\* when v is in [-50,50] and fails with InvalidHeightValue for every other v.
C10_ParenValue ==
    (Parsed_ /\ last.op = "literal") =>
        IF last.off >= -50 /\ last.off <= 50
        THEN result.kind = "Ok" /\ result.grid[last.arg].height = last.off
        ELSE result.kind = "Err" /\ result.err = "InvalidHeightValue"

IsDigit(b) == b >= ZERO /\ b <= NINE

\* the text put in place of the cell by the latest "literal" or "text" edit
EditedText == IF last.op = "literal" THEN format_height(last.off) ELSE CellTexts[last.off]

\* 1-based position in a cell text of the first byte after '(' and an optional '-'
RunStart(text) == IF Len(text) >= 2 /\ text[2] = MINUS THEN 3 ELSE 2

\* '(' , an optional '-', at least one digit, ')'
WellFormed(text) ==
    /\ Len(text) >= 3
    /\ text[1] = LPAREN /\ text[Len(text)] = RPAREN
    /\ RunStart(text) <= Len(text) - 1
    /\ \A k \in RunStart(text)..(Len(text) - 1) : IsDigit(text[k])

\* C11: a parenthesized literal whose digit run starts with '0' fails with
\* LeadingZero at the line and 1-based column of that '0', with char '0'; a
\* literal whose digit run starts with another digit never fails with
\* LeadingZero, whatever zeros follow.
C11_LeadingZero ==
    (Parsed_ /\ last.op \in {"literal", "text"}) =>
        LET text == EditedText
            s == RunStart(text)
            zero_pos == CellStart(tiles, last.arg) + s - 1
        IN  /\ (Len(text) >= s /\ text[s] = ZERO) =>
                  /\ result.kind = "Err"
                  /\ result.err = "LeadingZero"
                  /\ result.line = LineOf(bytes, zero_pos)
                  /\ result.column = ColumnOf(bytes, zero_pos)
                  /\ result.char = ZERO
            /\ (WellFormed(text) /\ text[s] # ZERO) => result.err # "LeadingZero"

\* the marker each marker byte stands for: 0 n p H J s
MarkerOf(b) ==
    CASE b = 48 -> "None"
      [] b = 110 -> "Melee"
      [] b = 112 -> "Projectile"
      [] b = 72 -> "HideousMass"
      [] b = 74 -> "JumpPad"
      [] b = 115 -> "Stairs"
      [] OTHER -> "invalid"

\* C12: with a valid elevation section and blank line, a marker byte 0 n p H J s
\* at column c of marker row r parses to None, Melee, Projectile, HideousMass,
\* JumpPad, Stairs at cell (r-1)*16 + c-1; any other byte there makes parse
\* fail with InvalidPrefab, that byte as char, column c and line 17 + r.
C12_MarkerSection ==
    (Parsed_ /\ last.op = "prefab") =>
        LET c == last.a[1]
            r == last.a[2]
            cell == (r - 1) * 16 + (c - 1)
        IN  IF MarkerOf(last.off) # "invalid"
            THEN /\ result.kind = "Ok"
                 /\ result.grid[cell] = [height |-> tiles[cell].height,
                                         prefab |-> MarkerOf(last.off)]
                 /\ \A i \in 0..255 : i # cell => result.grid[i] = tiles[i]
            ELSE /\ result.kind = "Err"
                 /\ result.err = "InvalidPrefab"
                 /\ result.char = last.off
                 /\ result.column = c
                 /\ result.line = 17 + r

C12_Witness ==
    /\ Parsed_ /\ last.op = "prefab" /\ last.a = <<8, 5>> /\ last.off = 122
    /\ tiles[0].height = -50 /\ tiles[100].height = 50
    /\ result.kind = "Err" /\ result.err = "InvalidPrefab"
    /\ result.line = 22 /\ result.column = 8 /\ result.char = 122

\* C13: write never leaves its 1569-byte buffer: for a grid with elevations in
\* [-50,50] it succeeds with at most 1569 bytes, and with exactly 1569 bytes
\* exactly when every elevation takes five bytes, that is, is <= -10.
C13_SizeBound ==
    /\ \A e \in -50..50 :
          /\ Len(write_height(e)) <= 5
          /\ Len(write_height(e)) = 5 <=> e <= -10
    /\ last.op = "write" =>
          /\ last.ok
          /\ Len(bytes) <= 1569
          /\ Len(bytes) = 1569 <=> (\A i \in 0..255 : tiles[i].height <= -10)
          /\ Len(bytes) = LinesWidth(tiles, 16) + 1 + 16 * 17

C13_Witness ==
    /\ last.op = "write" /\ last.ok /\ Len(bytes) = 1569
    /\ \A i \in 0..255 : tiles[i].height = -50

\* C19: parse accepts a parenthesized cell only when its content is an optional
\* '-' followed by at least one digit: a cell text of any other shape, such as
\* "()", "(-)" or "(5-)", makes parse fail with a ParseError.
C19_ParenGrammar ==
    (Parsed_ /\ last.op \in {"literal", "text"} /\ ~WellFormed(EditedText)) =>
        result.kind = "Err"

----------------------------------------------------------------------------
(* Further claims about the pattern (SpecGrid) *)

\* C14: for a row r in 0..15, copy_tile_to_row(tile, r) makes the cells
\* r*16 + 0..15 equal to tile and leaves the other 240 as they were; for a
\* column c in 0..15, copy_tile_to_column(tile, c) does so for the cells i*16 + c.
C14_RowColumnFill ==
    [][/\ (last'.op = "copy_tile_to_row" /\ last'.arg \in 0..15) =>
            /\ last'.ok
            /\ \A o \in 0..255 :
                  tiles'[o] = IF o \div 16 = last'.arg THEN last'.t ELSE tiles[o]
       /\ (last'.op = "copy_tile_to_column" /\ last'.arg \in 0..15) =>
            /\ last'.ok
            /\ \A o \in 0..255 :
                  tiles'[o] = IF o % 16 = last'.arg THEN last'.t ELSE tiles[o]]_vars

C14_Witness ==
    /\ last.op = "copy_tile_to_column" /\ last.ok /\ last.arg = 15 /\ nops = 2
    /\ last.t = [height |-> 0, prefab |-> "Melee"]
    /\ \A i \in 0..15 : tiles[i * 16 + 15] = last.t
    /\ \A i \in 0..14 : tiles[i] = [height |-> 20, prefab |-> "None"]
    /\ tiles[16] = Tile_default

\* C15: building a pattern from a sequence of n tiles succeeds; tile i is the
\* i-th input for i < min(n, 256) and the default tile for n <= i <= 255;
\* inputs at position 256 or later are ignored.
C15_TruncatingConstruction ==
    last.op = "from_vec" =>
        /\ last.ok
        /\ DOMAIN tiles = 0..255
        /\ \A i \in 0..255 : tiles[i] = IF i < last.arg THEN VecTile(i) ELSE Tile_default

C15_Witness ==
    /\ last.op = "from_vec" /\ last.ok /\ last.arg = 300
    /\ tiles[0] = [height |-> -50, prefab |-> "Melee"]
    /\ tiles[255] = [height |-> 3, prefab |-> "Stairs"]

\* C16: an access at coordinate (x, y) refers to offset y*16 + x when x < 16
\* and y < 16 (a write changes that tile only), and fails, changing no tile,
\* when x >= 16 or y >= 16.
C16_CoordinateBounds ==
    [][last'.op \in {"point", "point_mut"} =>
          IF InRange(last'.a)
          THEN /\ last'.ok
               /\ last'.off = Offset(last'.a)
               /\ last'.op = "point" => (last'.t = tiles[Offset(last'.a)] /\ tiles' = tiles)
               /\ last'.op = "point_mut" =>
                     tiles' = [tiles EXCEPT ![Offset(last'.a)] = last'.t]
          ELSE ~last'.ok /\ tiles' = tiles]_vars

----------------------------------------------------------------------------
(* Claim about Tile arithmetic (SpecArith) *)

\* C17: t + d (t - d) yields a Tile with t's marker and the elevation
\* t.elevation + d (t.elevation - d) when that integer is in [-50,50], and
\* fails for every other i8 d, wrapped sums included.
C17_ArithmeticAdjustment ==
    [][last'.op \in {"add", "sub"} =>
          LET t == tiles[last'.off]
              e == IF last'.op = "add" THEN t.height + last'.arg ELSE t.height - last'.arg
          IN  IF e >= -50 /\ e <= 50
              THEN /\ last'.ok
                   /\ last'.t = [height |-> e, prefab |-> t.prefab]
                   /\ tiles' = [tiles EXCEPT ![last'.off] = last'.t]
              ELSE ~last'.ok /\ tiles' = tiles]_vars

C17_Witness ==
    /\ last.op = "sub" /\ ~last.ok /\ last.arg = -128 /\ ~overflow_checks
    /\ tiles[ArithCell] = [height |-> 50, prefab |-> "JumpPad"]

----------------------------------------------------------------------------
(* Further claim about Line (SpecLine) *)

\* C18: after every set(tile) on a Line, a first call, a later call or a call
\* after next() calls, every selected cell equals the tile of that call.
C18_RepeatedBulkEdit ==
    (last.op = "set" /\ line.live) =>
        /\ last.ok
        /\ \A i \in 0..(Line_len(line) - 1) : tiles[line.buf[i]] = last.t

====
